---------------------------- MODULE Spec2Model ----------------------------
(***************************************************************************)
(* A model of package core's dialect layer (src/dialect.go): the           *)
(* process-wide dialect registry, the Base adapter's binding (Init and     *)
(* its accessors) and the Base adapter's DDL synthesis.                    *)
(*                                                                         *)
(* Go strings are TLA+ strings.  SANY's lexer rejects the grave accent     *)
(* (U+0060) inside a string literal, so the model writes that one          *)
(* character as the apostrophe: see Backtick.                              *)
(***************************************************************************)
EXTENDS Integers, Sequences, FiniteSets, TLC

VARIABLES
    dialects,   \* the registry map, dialect.go:188-190
    log,        \* history: the registry calls, or the CreateTableSql calls,
                \* made so far, oldest first
    ret,        \* the outcome of the last call of any operation
    b,          \* one Base instance, dialect.go:67-73
    inits,      \* history: the arguments of the first and of the latest Init
    inp,        \* the arguments of the DDL synthesis call under study
    pc,         \* concurrent registry: each caller's position
    acc,        \* concurrent registry: the map accesses in progress
    raced       \* concurrent registry: a write has overlapped another access

vars == <<dialects, log, ret, b, inits, inp, pc, acc, raced>>

----------------------------------------------------------------------------
(* Values *)

\* The nil value of a string-modelled reference (a *DB, a registered
\* dialect's identity, an error).
Nil == "nil"

\* The nil value of a record-modelled reference (a *Uri, a bound Dialect).
NilPtr == [nil |-> TRUE]

\* DbType identifiers used as registry keys.
DbTypes == {"mysql", "postgres", "sqlite3"}

\* Dialect instances (compared by identity).
DialectIds == {"d1", "d2"}

\* Longest history of registry calls explored.
MaxCalls == 3

NoRet == [op |-> "none", outcome |-> "none", value |-> Nil, dbName |-> Nil]

\* The zero value of the Base struct.
ZeroBase == [db |-> Nil, dialect |-> NilPtr, Uri |-> NilPtr,
             driverName |-> "", dataSourceName |-> ""]

\* No Init has run yet.
NoInits == [first |-> NilPtr, last |-> NilPtr]

\* No DDL call is under study.
NoCall == [op |-> "none"]

\* The concurrent callers of the registry.
Procs == {"p1", "p2"}

\* A caller outside RegisterDialect and QueryDialect.
Idle == [at |-> "idle", op |-> "none", dbName |-> Nil, dialect |-> Nil,
         overlapped |-> FALSE]

----------------------------------------------------------------------------
(* The registry, dialect.go:188-201 *)

\* var dialects = map[DbType]Dialect{}
EmptyRegistry == [x \in {} |-> Nil]

\* Mutant: the first registration for a key is kept (no override).
RegisterDialect_KeepFirst(m, dbName, dialect) ==
    IF dialect = Nil
    THEN [panic |-> TRUE, dialects |-> m]
    ELSE [panic |-> FALSE,
          dialects |-> [x \in DOMAIN m \cup {dbName} |->
                           IF x \in DOMAIN m THEN m[x] ELSE dialect]]

\* Mutant: the map is written before the nil check.
RegisterDialect_WriteFirst(m, dbName, dialect) ==
    [panic |-> dialect = Nil,
     dialects |-> [x \in DOMAIN m \cup {dbName} |->
                      IF x = dbName THEN dialect ELSE m[x]]]

\* RegisterDialect: panics on a nil dialect before touching the map,
\* otherwise dialects[dbName] = dialect.
RegisterDialect(m, dbName, dialect) ==
    IF dialect = Nil
    THEN [panic |-> TRUE, dialects |-> m]
    ELSE [panic |-> FALSE,
          dialects |-> [x \in DOMAIN m \cup {dbName} |->
                           IF x = dbName THEN dialect ELSE m[x]]]

\* QueryDialect: dialects[dbName]; a Go map read of an absent key yields
\* the zero value, the nil interface.
QueryDialect(m, dbName) ==
    IF dbName \in DOMAIN m THEN m[dbName] ELSE Nil

UnchangedOthers == UNCHANGED <<b, inits, inp, pc, acc, raced>>

CallRegisterDialect ==
    /\ Len(log) < MaxCalls
    /\ \E dbName \in DbTypes, dialect \in DialectIds \cup {Nil} :
         LET r == RegisterDialect(dialects, dbName, dialect) IN
           /\ dialects' = r.dialects
           /\ ret' = [op |-> "RegisterDialect",
                      outcome |-> IF r.panic THEN "panic" ELSE "return",
                      value |-> dialect, dbName |-> dbName]
           /\ log' = Append(log, [op |-> "RegisterDialect",
                                  dbName |-> dbName, dialect |-> dialect])
    /\ UnchangedOthers

CallQueryDialect ==
    /\ Len(log) < MaxCalls
    /\ \E dbName \in DbTypes :
           /\ ret' = [op |-> "QueryDialect", outcome |-> "return",
                      value |-> QueryDialect(dialects, dbName),
                      dbName |-> dbName]
           /\ log' = Append(log, [op |-> "QueryDialect",
                                  dbName |-> dbName, dialect |-> Nil])
    /\ UNCHANGED dialects
    /\ UnchangedOthers

Init ==
    /\ dialects = EmptyRegistry
    /\ log = <<>>
    /\ ret = NoRet
    /\ b = ZeroBase
    /\ inits = NoInits
    /\ inp = NoCall
    /\ pc = [q \in Procs |-> Idle]
    /\ acc = [q \in Procs |-> "none"]
    /\ raced = FALSE

Next == CallRegisterDialect \/ CallQueryDialect

Spec == Init /\ [][Next]_vars

----------------------------------------------------------------------------
(* History operators for the registry claims *)

\* The dialect of the latest RegisterDialect(X, d) with d non-nil in the
\* history h, Nil when there is none.
RECURSIVE LastRegistered(_, _)
LastRegistered(h, X) ==
    IF h = <<>> THEN Nil
    ELSE LET e == h[Len(h)] IN
         IF e.op = "RegisterDialect" /\ e.dbName = X /\ e.dialect # Nil
         THEN e.dialect
         ELSE LastRegistered(SubSeq(h, 1, Len(h) - 1), X)

\* C1: a lookup of X yields the dialect of the latest non-nil registration
\* under X and the nil result when X was never registered; the last
\* QueryDialect call returned (did not panic) with exactly that value.
\* Registrations under other keys and lookups do not enter LastRegistered
\* for X, so they cannot change the result.
C1_LastRegistrationWins ==
    /\ \A X \in DbTypes : QueryDialect(dialects, X) = LastRegistered(log, X)
    /\ ret.op = "QueryDialect" =>
          /\ ret.outcome = "return"
          /\ ret.value = LastRegistered(log, ret.dbName)

\* C1 witness: X was registered twice with different dialects, another key
\* was registered too, a third key never, and the last call looked X up.
C1_Witness ==
    /\ Len(log) = 3
    /\ log[1].op = "RegisterDialect" /\ log[1].dialect = "d1"
    /\ log[2].op = "RegisterDialect" /\ log[2].dialect = "d2"
    /\ log[1].dbName = log[2].dbName
    /\ log[3].op = "QueryDialect" /\ log[3].dbName = log[1].dbName
    /\ ret.value = "d2"
    /\ \E Y \in DbTypes : Y \notin DOMAIN dialects

\* C2: RegisterDialect(X, nil) ends in a panic and leaves the registry as
\* it was, X included.
C2_NilRegistrationPanics ==
    [][(ret'.op = "RegisterDialect" /\ ret'.value = Nil /\ log' # log)
         => (ret'.outcome = "panic" /\ dialects' = dialects)]_vars

\* C2 witness: a nil registration under a key that holds a dialect has
\* panicked and the key still holds that dialect.
C2_Witness ==
    /\ ret.op = "RegisterDialect" /\ ret.value = Nil
    /\ ret.outcome = "panic"
    /\ ret.dbName \in DOMAIN dialects
    /\ dialects[ret.dbName] = "d1"

----------------------------------------------------------------------------
(* The Base adapter's binding, dialect.go:67-103 *)

\* The grave accent, written as an apostrophe (see the module comment).
Backtick == "'"

\* *Uri values; only the fields the Base adapter reads are kept.
Uris == {[DbType |-> "mysql", Charset |-> "utf8"],
         [DbType |-> "sqlite3", Charset |-> ""]}

\* *DB values (opaque connections).
DBs == {"db1"}

\* The URI() answer of a dialect that embeds the Base it is bound to and
\* does not override URI(): whatever Base.URI() returns at the call.
SelfUri == [self |-> TRUE]

\* A concrete dialect, as the answers of the methods Base calls on it.
\* URI is the answer of the dialect's own URI(): SelfUri, a *Uri of its
\* own, or nil.
MySQLLike == [QuoteStr |-> Backtick, SupportEngine |-> TRUE,
              SupportCharset |-> TRUE, URI |-> SelfUri]
PostgresLike == [QuoteStr |-> "\"", SupportEngine |-> FALSE,
                 SupportCharset |-> FALSE, URI |-> SelfUri]

DriverNames == {"mysql", "sqlite3"}
DataSourceNames == {"root@/test", "./test.db"}

\* Mutant: the two string fields are assigned crosswise.
BaseInit_Swapped(base, db, dialect, uri, drivername, dataSourceName) ==
    [err |-> Nil,
     b |-> [db |-> db, dialect |-> dialect, Uri |-> uri,
            driverName |-> dataSourceName, dataSourceName |-> drivername]]

\* Base.Init: assigns the five fields unconditionally and returns nil.
BaseInit(base, db, dialect, uri, drivername, dataSourceName) ==
    [err |-> Nil,
     b |-> [db |-> db, dialect |-> dialect, Uri |-> uri,
            driverName |-> drivername, dataSourceName |-> dataSourceName]]

\* Base.DB
DB(base) == base.db

\* Base.URI
URI(base) == base.Uri

\* b.dialect.URI(): the bound dialect's own answer, which is Base.URI()
\* only for a dialect that embeds this Base.
DialectURI(base) ==
    IF base.dialect.URI = SelfUri THEN URI(base) ELSE base.dialect.URI

\* Base.DBType: b.Uri.DbType, a nil-pointer dereference when Uri is nil.
DBType(base) ==
    IF base.Uri = NilPtr THEN [panic |-> TRUE, value |-> Nil]
    ELSE [panic |-> FALSE, value |-> base.Uri.DbType]

\* Base.DriverName
DriverName(base) == base.driverName

\* Base.DataSourceName
DataSourceName(base) == base.dataSourceName

UnchangedRegistry == UNCHANGED <<dialects, log, pc, acc, raced>>

CallInit ==
    /\ \E db \in DBs \cup {Nil}, dialect \in {MySQLLike, PostgresLike},
          uri \in Uris \cup {NilPtr}, drivername \in DriverNames,
          dataSourceName \in DataSourceNames :
         LET r == BaseInit(b, db, dialect, uri, drivername, dataSourceName)
             args == [db |-> db, dialect |-> dialect, Uri |-> uri,
                      driverName |-> drivername,
                      dataSourceName |-> dataSourceName]
         IN /\ b' = r.b
            /\ ret' = [op |-> "Init", outcome |-> "return",
                       value |-> r.err, args |-> args]
            /\ inits' = [first |-> IF inits.first = NilPtr THEN args
                                    ELSE inits.first,
                         last |-> args]
    /\ UNCHANGED inp
    /\ UnchangedRegistry

CallDB ==
    /\ ret' = [op |-> "DB", outcome |-> "return", value |-> DB(b)]
    /\ UNCHANGED <<b, inits, inp>>
    /\ UnchangedRegistry

CallURI ==
    /\ ret' = [op |-> "URI", outcome |-> "return", value |-> URI(b)]
    /\ UNCHANGED <<b, inits, inp>>
    /\ UnchangedRegistry

CallDBType ==
    /\ ret' = [op |-> "DBType",
               outcome |-> IF DBType(b).panic THEN "panic" ELSE "return",
               value |-> DBType(b).value]
    /\ UNCHANGED <<b, inits, inp>>
    /\ UnchangedRegistry

CallDriverName ==
    /\ ret' = [op |-> "DriverName", outcome |-> "return",
               value |-> DriverName(b)]
    /\ UNCHANGED <<b, inits, inp>>
    /\ UnchangedRegistry

CallDataSourceName ==
    /\ ret' = [op |-> "DataSourceName", outcome |-> "return",
               value |-> DataSourceName(b)]
    /\ UNCHANGED <<b, inits, inp>>
    /\ UnchangedRegistry

InitBase ==
    /\ dialects = EmptyRegistry
    /\ log = <<>>
    /\ ret = NoRet
    /\ b = ZeroBase
    /\ inits = NoInits
    /\ inp = NoCall
    /\ pc = [q \in Procs |-> Idle]
    /\ acc = [q \in Procs |-> "none"]
    /\ raced = FALSE

NextBase ==
    \/ CallInit
    \/ CallDB
    \/ CallURI
    \/ CallDBType
    \/ CallDriverName
    \/ CallDataSourceName

SpecBase == InitBase /\ [][NextBase]_vars

\* What the five accessors answer on a Base bound to the arguments a.
AccessorsAnswer(a) ==
    /\ DB(b) = a.db
    /\ URI(b) = a.Uri
    /\ DriverName(b) = a.driverName
    /\ DataSourceName(b) = a.dataSourceName
    /\ IF a.Uri = NilPtr THEN DBType(b).panic
       ELSE ~DBType(b).panic /\ DBType(b).value = a.Uri.DbType

\* What the last accessor call returned, on a Base bound to a.
LastCallAnswered(a) ==
    /\ ret.op = "DB" => ret.value = a.db
    /\ ret.op = "URI" => ret.value = a.Uri
    /\ ret.op = "DriverName" => ret.value = a.driverName
    /\ ret.op = "DataSourceName" => ret.value = a.dataSourceName
    /\ ret.op = "DBType" =>
          IF a.Uri = NilPtr THEN ret.outcome = "panic"
          ELSE ret.outcome = "return" /\ ret.value = a.Uri.DbType

\* C3 as stated: once Init has run, the accessors answer with the values of
\* the first Init in every later state, further Init calls included.
C3_BoundOnce ==
    inits.first # NilPtr => AccessorsAnswer(inits.first)

\* C3 as amended: the accessors answer with the values of the latest Init
\* (DBType panics when that Init bound a nil URI); accessor calls change
\* nothing.
C3_BoundToLatestInit ==
    inits.last # NilPtr =>
        AccessorsAnswer(inits.last) /\ LastCallAnswered(inits.last)

\* C3 witness: Init ran twice with different arguments and an accessor
\* then returned the second driver name.
C3_Witness ==
    /\ inits.first # NilPtr
    /\ inits.first.driverName # inits.last.driverName
    /\ inits.first.dataSourceName # inits.last.dataSourceName
    /\ inits.first.db # inits.last.db
    /\ ret.op = "DriverName"
    /\ ret.value = inits.last.driverName

\* C4: Init given a nil connection or a nil URI reports a configuration
\* error, and returns success only on structurally valid inputs.
C4_InvalidInitFails ==
    ret.op = "Init" =>
        (ret.value = Nil <=> (ret.args.db # Nil /\ ret.args.Uri # NilPtr))

----------------------------------------------------------------------------
(* Go string helpers used by the DDL synthesis *)

\* strings.Join(elems, sep)
RECURSIVE Join(_, _)
Join(elems, sep) ==
    IF Len(elems) = 0 THEN ""
    ELSE IF Len(elems) = 1 THEN elems[1]
    ELSE elems[1] \o sep \o Join(Tail(elems), sep)

\* unicode.IsSpace, as strings.TrimSpace applies it: tab, line feed,
\* vertical tab, form feed, carriage return, space, U+0085, U+00A0 and
\* U+1680.  The vertical tab, U+0085, U+00A0 and U+1680 are written raw.
\* The remaining Unicode spaces (U+2000-200A, U+2028, U+2029, U+202F,
\* U+205F, U+3000) cannot occur in a TLA+ string at all.
IsSpace(c) ==
    c \in {"\t", "\n", "", "\f", "\r", " ", "", " ", " "}

RECURSIVE TrimLeft(_)
TrimLeft(s) ==
    IF Len(s) > 0 /\ IsSpace(SubSeq(s, 1, 1))
    THEN TrimLeft(SubSeq(s, 2, Len(s)))
    ELSE s

RECURSIVE TrimRight(_)
TrimRight(s) ==
    IF Len(s) > 0 /\ IsSpace(SubSeq(s, Len(s), Len(s)))
    THEN TrimRight(SubSeq(s, 1, Len(s) - 1))
    ELSE s

\* strings.TrimSpace(s): leading and trailing white space removed.
TrimSpace(s) == TrimRight(TrimLeft(s))

----------------------------------------------------------------------------
(* Table, Column and Index metadata: types of package core that the DDL    *)
(* synthesis reads and whose source is outside dialect.go                  *)

\* Most columns a generated table holds.
MaxCols == 3

\* The columns tables are built from, in declaration order.
ColumnPool == <<[Name |-> "id", SQLType |-> "INT"],
                [Name |-> "name", SQLType |-> "TEXT"],
                [Name |-> "gid", SQLType |-> "INT"],
                [Name |-> "ts", SQLType |-> "DATETIME"]>>

\* A column; a primary-key column is not nullable.
Column(i, isPk) ==
    [Name |-> ColumnPool[i].Name, SQLType |-> ColumnPool[i].SQLType,
     IsPrimaryKey |-> isPk, Nullable |-> ~isPk]

EmptyTable(name) ==
    [Name |-> name, ColumnsSeq |-> <<>>, Columns |-> [x \in {} |-> NilPtr],
     PrimaryKeys |-> <<>>]

\* Table.AddColumn: appends the column to the sequence and the lookup, and
\* its name to PrimaryKeys when it is a primary-key column.
AddColumn(t, col) ==
    [Name |-> t.Name,
     ColumnsSeq |-> Append(t.ColumnsSeq, col.Name),
     Columns |-> [x \in DOMAIN t.Columns \cup {col.Name} |->
                     IF x = col.Name THEN col ELSE t.Columns[x]],
     PrimaryKeys |-> IF col.IsPrimaryKey
                     THEN Append(t.PrimaryKeys, col.Name)
                     ELSE t.PrimaryKeys]

\* The table of the first n pool columns with the given primary-key flags.
RECURSIVE BuildTable(_, _)
BuildTable(n, flags) ==
    IF n = 0 THEN EmptyTable("users")
    ELSE AddColumn(BuildTable(n - 1, flags), Column(n, flags[n]))

\* Tables built through AddColumn, the empty table included.
BuiltTables ==
    UNION {{BuildTable(k, flags) : flags \in [1..k -> BOOLEAN]} :
              k \in 0..MaxCols}

\* A composite key whose PrimaryKeys field lists the columns in the reverse
\* of the column order (PrimaryKeys is an exported field).
ReversedKeyTable ==
    [BuildTable(2, [i \in 1..2 |-> TRUE]) EXCEPT
        !.PrimaryKeys = <<"name", "id">>]

\* Malformed metadata: a primary-key name with no column behind it.
GhostKeyTable ==
    [BuildTable(1, [i \in 1..1 |-> TRUE]) EXCEPT
        !.PrimaryKeys = <<"id", "ghost">>]

\* Malformed metadata: a name in the column sequence with no column.
GhostColumnTable ==
    [BuildTable(1, [i \in 1..1 |-> FALSE]) EXCEPT
        !.ColumnsSeq = <<"id", "ghost">>]

\* A table whose IsPrimaryKey flags disagree with its PrimaryKeys field:
\* two flagged columns, one of them listed.
ExtraFlagTable ==
    [BuildTable(2, [i \in 1..2 |-> TRUE]) EXCEPT !.PrimaryKeys = <<"id">>]

\* A table whose only listed primary-key column does not carry the flag.
UnflaggedKeyTable ==
    [BuildTable(2, [i \in 1..2 |-> FALSE]) EXCEPT !.PrimaryKeys = <<"id">>]

Tables ==
    BuiltTables \cup {ReversedKeyTable, GhostKeyTable, GhostColumnTable,
                      ExtraFlagTable, UnflaggedKeyTable}

\* Table.ColumnsSeq()
ColumnsSeq(table) == table.ColumnsSeq

\* Table.GetColumn(name): the column, or nil when the lookup has none.
GetColumn(table, name) ==
    IF name \in DOMAIN table.Columns THEN table.Columns[name] ELSE NilPtr

\* Base.ShowCreateNull
ShowCreateNull == TRUE

\* The nullability part of a column definition.
NullPart(col) ==
    IF ShowCreateNull
    THEN IF col.Nullable THEN "NULL " ELSE "NOT NULL "
    ELSE ""

\* Column.String(dialect): the definition with the inline primary-key
\* marker on a primary-key column.
ColumnString(col, d) ==
    d.QuoteStr \o col.Name \o d.QuoteStr \o " " \o col.SQLType \o " "
      \o (IF col.IsPrimaryKey THEN "PRIMARY KEY " ELSE "")
      \o NullPart(col)

\* Column.StringNoPk(dialect): the definition without the marker.
ColumnStringNoPk(col, d) ==
    d.QuoteStr \o col.Name \o d.QuoteStr \o " " \o col.SQLType \o " "
      \o NullPart(col)

Indexes == {[Name |-> "name", Type |-> "IndexType", Cols |-> <<"name">>],
            [Name |-> "key", Type |-> "UniqueType",
             Cols |-> <<"id", "gid">>]}

----------------------------------------------------------------------------
(* The Base adapter's DDL synthesis, dialect.go:105-186 *)

\* Every combination of the answers Base asks a dialect for.
Dialects ==
    [QuoteStr : {Backtick, "\""}, SupportEngine : BOOLEAN,
     SupportCharset : BOOLEAN, URI : {SelfUri, NilPtr} \cup Uris]

\* Base.Quote
Quote(base, c) == base.dialect.QuoteStr \o c \o base.dialect.QuoteStr

\* Base.DropTableSql: the quote character is the literal grave accent.
DropTableSql(base, tableName) ==
    "DROP TABLE IF EXISTS " \o Backtick \o tableName \o Backtick

\* Mutant: the statement terminator is left out.
CreateIndexSql_NoTerminator(base, tableName, index) ==
    LET unique == IF index.Type = "UniqueType" THEN " UNIQUE" ELSE ""
        idxName == IF index.Type = "UniqueType"
                   THEN "UQE_" \o tableName \o "_" \o index.Name
                   ELSE "IDX_" \o tableName \o "_" \o index.Name
    IN "CREATE" \o unique \o " INDEX " \o Quote(base, idxName) \o " ON "
         \o Quote(base, tableName) \o " ("
         \o Quote(base, Join(index.Cols, Quote(base, ","))) \o ")"

\* Base.CreateIndexSql
CreateIndexSql(base, tableName, index) ==
    LET unique == IF index.Type = "UniqueType" THEN " UNIQUE" ELSE ""
        idxName == IF index.Type = "UniqueType"
                   THEN "UQE_" \o tableName \o "_" \o index.Name
                   ELSE "IDX_" \o tableName \o "_" \o index.Name
    IN "CREATE" \o unique \o " INDEX " \o Quote(base, idxName) \o " ON "
         \o Quote(base, tableName) \o " ("
         \o Quote(base, Join(index.Cols, Quote(base, ","))) \o ");"

\* The loop of CreateTableSql over the column sequence: a nil column
\* (a name the lookup does not resolve) is dereferenced, which panics.
RECURSIVE ColumnDefs(_, _, _, _)
ColumnDefs(base, table, names, sql) ==
    IF Len(names) = 0 THEN [panic |-> FALSE, sql |-> sql]
    ELSE LET col == GetColumn(table, Head(names)) IN
         IF col = NilPtr THEN [panic |-> TRUE, sql |-> sql]
         ELSE LET def == IF col.IsPrimaryKey /\ Len(table.PrimaryKeys) = 1
                         THEN ColumnString(col, base.dialect)
                         ELSE ColumnStringNoPk(col, base.dialect)
              IN ColumnDefs(base, table, Tail(names),
                            TrimSpace(sql \o def) \o ", ")

\* Mutant: the trailing clause is emitted for a single-column key too.
PrimaryKeyClause_FromOne(base, pkList) ==
    IF Len(pkList) >= 1
    THEN "PRIMARY KEY ( " \o Quote(base, Join(pkList, Quote(base, ",")))
           \o " ), "
    ELSE ""

\* The trailing composite-key clause of CreateTableSql.
PrimaryKeyClause(base, pkList) ==
    IF Len(pkList) > 1
    THEN "PRIMARY KEY ( " \o Quote(base, Join(pkList, Quote(base, ",")))
           \o " ), "
    ELSE ""

\* Mutant: the fallback reads the Base's own URI (b.Uri), not the URI the
\* bound dialect returns.
TableOptions_BoundUri(base, storeEngine, charset) ==
    LET engine == IF base.dialect.SupportEngine /\ storeEngine # ""
                  THEN " ENGINE=" \o storeEngine ELSE ""
    IN IF ~base.dialect.SupportCharset
       THEN [panic |-> FALSE, sql |-> engine]
       ELSE IF Len(charset) = 0 /\ URI(base) = NilPtr
       THEN [panic |-> TRUE, sql |-> engine]
       ELSE LET cs == IF Len(charset) = 0 THEN URI(base).Charset
                      ELSE charset
            IN [panic |-> FALSE,
                sql |-> engine \o (IF Len(cs) > 0
                                   THEN " DEFAULT CHARSET " \o cs ELSE "")]

\* The ENGINE= and DEFAULT CHARSET clauses of CreateTableSql.  The charset
\* fallback reads b.dialect.URI().Charset, which dereferences a nil URI.
TableOptions(base, storeEngine, charset) ==
    LET engine == IF base.dialect.SupportEngine /\ storeEngine # ""
                  THEN " ENGINE=" \o storeEngine ELSE ""
    IN IF ~base.dialect.SupportCharset
       THEN [panic |-> FALSE, sql |-> engine]
       ELSE IF Len(charset) = 0 /\ DialectURI(base) = NilPtr
       THEN [panic |-> TRUE, sql |-> engine]
       ELSE LET cs == IF Len(charset) = 0 THEN DialectURI(base).Charset
                      ELSE charset
            IN [panic |-> FALSE,
                sql |-> engine \o (IF Len(cs) > 0
                                   THEN " DEFAULT CHARSET " \o cs ELSE "")]

\* Base.CreateTableSql
CreateTableSql(base, table, tableName, storeEngine, charset) ==
    LET name == IF tableName = "" THEN table.Name ELSE tableName
        head == "CREATE TABLE IF NOT EXISTS " \o Quote(base, name) \o " ("
        defs == ColumnDefs(base, table, ColumnsSeq(table), head)
        withPk == defs.sql \o PrimaryKeyClause(base, table.PrimaryKeys)
        opts == TableOptions(base, storeEngine, charset)
    IN IF defs.panic \/ Len(withPk) < 2 \/ opts.panic
       THEN [panic |-> TRUE, sql |-> ""]
       ELSE [panic |-> FALSE,
             sql |-> SubSeq(withPk, 1, Len(withPk) - 2) \o ")"
                       \o opts.sql \o ";"]

\* The calls under study.
CreateTableCalls ==
    [op : {"CreateTableSql"}, table : Tables, tableName : {"", "member"},
     storeEngine : {"", "InnoDB"}, charset : {"", "latin1"}]

DropTableCalls == [op : {"DropTableSql"}, tableName : {"users", "orders"}]

CreateIndexCalls ==
    [op : {"CreateIndexSql"}, tableName : {"users"}, index : Indexes]

UnchangedSqlOthers == UNCHANGED <<b, inits, inp, dialects, log, pc, acc, raced>>

CallCreateTableSql ==
    /\ inp.op = "CreateTableSql"
    /\ LET r == CreateTableSql(b, inp.table, inp.tableName, inp.storeEngine,
                               inp.charset)
       IN ret' = [op |-> "CreateTableSql",
                  outcome |-> IF r.panic THEN "panic" ELSE "return",
                  value |-> r.sql]
    /\ UnchangedSqlOthers

CallDropTableSql ==
    /\ inp.op = "DropTableSql"
    /\ ret' = [op |-> "DropTableSql", outcome |-> "return",
               value |-> DropTableSql(b, inp.tableName)]
    /\ UnchangedSqlOthers

CallCreateIndexSql ==
    /\ inp.op = "CreateIndexSql"
    /\ ret' = [op |-> "CreateIndexSql", outcome |-> "return",
               value |-> CreateIndexSql(b, inp.tableName, inp.index)]
    /\ UnchangedSqlOthers

\* A Base bound by Init to a dialect (one that embeds it, or one with a
\* URI of its own) and a URI (possibly nil), and one call.
InitSql ==
    /\ dialects = EmptyRegistry
    /\ log = <<>>
    /\ ret = NoRet
    /\ \E d \in Dialects, uri \in Uris \cup {NilPtr} :
          b = BaseInit(ZeroBase, "db1", d, uri, "mysql", "root@/test").b
    /\ inits = NoInits
    /\ inp \in CreateTableCalls \cup DropTableCalls \cup CreateIndexCalls
    /\ pc = [q \in Procs |-> Idle]
    /\ acc = [q \in Procs |-> "none"]
    /\ raced = FALSE

NextSql == CallCreateTableSql \/ CallDropTableSql \/ CallCreateIndexSql

SpecSql == InitSql /\ [][NextSql]_vars

----------------------------------------------------------------------------
(* Successive CreateTableSql calls on one bound Base.  The log keeps each  *)
(* call's table and result.                                                *)

\* Most CreateTableSql calls recorded in one behaviour.
MaxRenders == 2

\* The caller renders any table, with the table's own name, a store engine
\* and the charset left to the dialect's URI.
CallCreateTableSqlOn(table) ==
    /\ Len(log) < MaxRenders
    /\ LET r == CreateTableSql(b, table, "", "InnoDB", "")
           outcome == IF r.panic THEN "panic" ELSE "return"
       IN /\ ret' = [op |-> "CreateTableSql", outcome |-> outcome,
                     value |-> r.sql]
          /\ log' = Append(log, [table |-> table, outcome |-> outcome,
                                 value |-> r.sql])
    /\ inp' = [op |-> "CreateTableSql", table |-> table, tableName |-> "",
               storeEngine |-> "InnoDB", charset |-> ""]
    /\ UNCHANGED <<b, inits, dialects, pc, acc, raced>>

\* A Base bound by Init to a dialect that embeds it, before any call.
InitPk ==
    /\ dialects = EmptyRegistry
    /\ log = <<>>
    /\ ret = NoRet
    /\ \E d \in {MySQLLike, PostgresLike} :
          b = BaseInit(ZeroBase, "db1", d,
                       [DbType |-> "mysql", Charset |-> "utf8"],
                       "mysql", "root@/test").b
    /\ inits = NoInits
    /\ inp = NoCall
    /\ pc = [q \in Procs |-> Idle]
    /\ acc = [q \in Procs |-> "none"]
    /\ raced = FALSE

NextPk == \E table \in Tables : CallCreateTableSqlOn(table)

SpecPk == InitPk /\ [][NextPk]_vars

----------------------------------------------------------------------------
(* Reading a generated statement *)

\* The positions at which sub occurs in s.
Occurrences(s, sub) ==
    {i \in 1..(Len(s) - Len(sub) + 1) : SubSeq(s, i, i + Len(sub) - 1) = sub}

Contains(s, sub) == Occurrences(s, sub) # {}

Count(s, sub) == Cardinality(Occurrences(s, sub))

EndsWith(s, suffix) ==
    /\ Len(s) >= Len(suffix)
    /\ SubSeq(s, Len(s) - Len(suffix) + 1, Len(s)) = suffix

\* The names, each wrapped in q, separated by commas.
RECURSIVE QuotedList(_, _)
QuotedList(q, names) ==
    IF Len(names) = 1 THEN q \o names[1] \o q
    ELSE q \o names[1] \o q \o "," \o QuotedList(q, Tail(names))

\* The column definition with the inline PRIMARY KEY marker, and without.
InlineForm(col) ==
    TrimSpace(ColumnString([col EXCEPT !.IsPrimaryKey = TRUE], b.dialect))

PlainForm(col) == TrimSpace(ColumnStringNoPk(col, b.dialect))

\* The columns of a table in definition order (every name resolves).
ColumnsOf(table) ==
    [i \in 1..Len(table.ColumnsSeq) |-> table.Columns[table.ColumnsSeq[i]]]

Listed(table, name) ==
    \E i \in 1..Len(table.PrimaryKeys) : table.PrimaryKeys[i] = name

\* Each column's IsPrimaryKey flag agrees with the PrimaryKeys list, as in
\* every table built through AddColumn.
FlagsAgree(table) ==
    \A i \in 1..Len(table.ColumnsSeq) :
        ColumnsOf(table)[i].IsPrimaryKey <=>
            Listed(table, table.ColumnsSeq[i])

\* The composite-key half of C5 for one rendered table: exactly one
\* PRIMARY KEY in the statement, the trailing clause listing exactly the
\* PrimaryKeys names, quoted and in list order, right after the last column
\* definition and right before the closing ')', and every column rendered
\* without the inline marker.
CompositeKeyRendered(table, sql) ==
    LET cols == ColumnsOf(table)
        before == IF Len(cols) = 0 THEN " ("
                  ELSE PlainForm(cols[Len(cols)]) \o ", "
    IN /\ Count(sql, "PRIMARY KEY") = 1
       /\ Contains(sql, before \o "PRIMARY KEY ( "
                          \o QuotedList(b.dialect.QuoteStr, table.PrimaryKeys)
                          \o " ))")
       /\ \A i \in 1..Len(cols) : Contains(sql, PlainForm(cols[i]))

\* The single-key half of C5 as stated: no trailing clause, the listed
\* column rendered inline and no other column carrying the marker.
SingleKeyRenderedAsStated(table, sql) ==
    LET cols == ColumnsOf(table)
    IN /\ ~Contains(sql, "PRIMARY KEY (")
       /\ Count(sql, "PRIMARY KEY") = 1
       /\ \E i \in 1..Len(cols) : cols[i].Name = table.PrimaryKeys[1]
       /\ \A i \in 1..Len(cols) :
             IF cols[i].Name = table.PrimaryKeys[1]
             THEN Contains(sql, InlineForm(cols[i]))
             ELSE Contains(sql, PlainForm(cols[i]))

\* The single-key half of C5 as the code has it: no trailing clause, and
\* the inline marker on exactly the columns whose IsPrimaryKey flag is set.
SingleKeyRendered(table, sql) ==
    LET cols == ColumnsOf(table)
        flagged == {i \in 1..Len(cols) : cols[i].IsPrimaryKey}
    IN /\ ~Contains(sql, "PRIMARY KEY (")
       /\ Count(sql, "PRIMARY KEY") = Cardinality(flagged)
       /\ \A i \in 1..Len(cols) :
             IF i \in flagged
             THEN Contains(sql, InlineForm(cols[i]))
             ELSE Contains(sql, PlainForm(cols[i]))
       /\ FlagsAgree(table) => SingleKeyRenderedAsStated(table, sql)

\* The calls of the log that returned a statement.
Rendered == {i \in 1..Len(log) : log[i].outcome = "return"}

\* C5 as stated: for every table whose primary-key list has exactly one
\* column there is no trailing PRIMARY KEY ( ... ) clause and only that
\* column is rendered in the inline form; for every table with two or more
\* there is exactly one trailing clause, after the last column definition
\* and before the closing ')', listing all and only the primary-key columns
\* quoted and in list order, and no column carries the inline marker.
C5_AsStated ==
    \A i \in Rendered :
        /\ Len(log[i].table.PrimaryKeys) = 1 =>
              SingleKeyRenderedAsStated(log[i].table, log[i].value)
        /\ Len(log[i].table.PrimaryKeys) >= 2 =>
              CompositeKeyRendered(log[i].table, log[i].value)

\* C5 as amended: for every table whose primary-key list has exactly one
\* column there is no trailing PRIMARY KEY ( ... ) clause and the inline
\* form is used for exactly the columns whose IsPrimaryKey flag is set,
\* which is only the listed column when the flags agree with the list; for
\* every table with two or more the composite-key half holds as stated.
C5_PrimaryKeyPlacement ==
    \A i \in Rendered :
        /\ Len(log[i].table.PrimaryKeys) = 1 =>
              SingleKeyRendered(log[i].table, log[i].value)
        /\ Len(log[i].table.PrimaryKeys) >= 2 =>
              CompositeKeyRendered(log[i].table, log[i].value)

\* C5 witness: a three-column table with one key column and a three-column
\* table with a two-column key and a non-key column between them have both
\* been rendered, the first with one inline marker and no trailing clause,
\* the second with the trailing clause after its last column definition.
C5_Witness ==
    \E i \in Rendered, j \in Rendered :
        /\ Len(log[i].table.ColumnsSeq) = 3
        /\ log[i].table.PrimaryKeys = <<"name">>
        /\ FlagsAgree(log[i].table)
        /\ Contains(log[i].value, " TEXT PRIMARY KEY NOT NULL, ")
        /\ ~Contains(log[i].value, "PRIMARY KEY (")
        /\ log[j].table.ColumnsSeq = <<"id", "name", "gid">>
        /\ log[j].table.PrimaryKeys = <<"id", "gid">>
        /\ ~ColumnsOf(log[j].table)[2].IsPrimaryKey
        /\ Contains(log[j].value,
                    " INT NOT NULL, PRIMARY KEY ( "
                      \o QuotedList(b.dialect.QuoteStr, <<"id", "gid">>)
                      \o " ))")

\* The charset of the URI bound at Init is non-empty (a nil URI has none).
BoundUriHasCharset == URI(b) # NilPtr /\ URI(b).Charset # ""

\* The charset of the URI the bound dialect's URI() returns is non-empty.
DialectUriHasCharset == DialectURI(b) # NilPtr /\ DialectURI(b).Charset # ""

\* The DEFAULT CHARSET clause of the returned statement is there exactly
\* when the dialect supports charsets and the explicit argument is
\* non-empty or hasCharset; it then names the explicit argument if
\* non-empty and fallback otherwise, ends right before the final ';', and
\* follows the ENGINE= clause when there is one.
CharsetClauseFrom(hasCharset, fallback) ==
    LET cs == IF inp.charset # "" THEN inp.charset ELSE fallback
        present == Contains(ret.value, " DEFAULT CHARSET ")
    IN /\ present <=>
            (b.dialect.SupportCharset /\ (inp.charset # "" \/ hasCharset))
       /\ present =>
            /\ Count(ret.value, " DEFAULT CHARSET ") = 1
            /\ EndsWith(ret.value, " DEFAULT CHARSET " \o cs \o ";")
            /\ \A i \in Occurrences(ret.value, " ENGINE=") :
                  \A j \in Occurrences(ret.value, " DEFAULT CHARSET ") :
                      i < j

\* C6 as stated: the clause is governed by, and falls back to, the charset
\* of the URI bound to the Base at Init.
C6_CharsetFromBoundUri ==
    (ret.op = "CreateTableSql" /\ ret.outcome = "return") =>
        CharsetClauseFrom(BoundUriHasCharset,
                          IF URI(b) = NilPtr THEN "" ELSE URI(b).Charset)

\* C6 as amended: the clause is governed by, and falls back to, the charset
\* of the URI the bound dialect's URI() returns, which is the bound URI for
\* a dialect that embeds the Base.
C6_CharsetFromDialectUri ==
    (ret.op = "CreateTableSql" /\ ret.outcome = "return") =>
        CharsetClauseFrom(DialectUriHasCharset,
                          IF DialectURI(b) = NilPtr THEN ""
                          ELSE DialectURI(b).Charset)

\* C6 witness: behind an ENGINE= clause, the clause fell back to the charset
\* of the dialect's own URI while the Base was bound to a URI with none.
C6_Witness ==
    /\ ret.op = "CreateTableSql" /\ ret.outcome = "return"
    /\ inp.charset = ""
    /\ b.dialect.URI # SelfUri
    /\ URI(b) # NilPtr /\ URI(b).Charset = ""
    /\ EndsWith(ret.value, ") ENGINE=InnoDB DEFAULT CHARSET utf8;")

\* The embedding case: the fallback is the bound URI's charset.
C6_WitnessEmbedded ==
    /\ ret.op = "CreateTableSql" /\ ret.outcome = "return"
    /\ inp.charset = ""
    /\ b.dialect.URI = SelfUri
    /\ EndsWith(ret.value, ") ENGINE=InnoDB DEFAULT CHARSET utf8;")

IsDdl == ret.op \in {"DropTableSql", "CreateTableSql", "CreateIndexSql"}

\* C7 as stated: every statement DropTableSql, CreateTableSql and
\* CreateIndexSql return ends with ';' and holds no other statement.
C7_AllTerminated ==
    (IsDdl /\ ret.outcome = "return") =>
        (EndsWith(ret.value, ";") /\ Count(ret.value, ";") = 1)

\* C7 as amended: CreateTableSql and CreateIndexSql return one statement
\* ending with its only ';'; DropTableSql returns one statement with no
\* terminator.
C7_TerminatedExceptDrop ==
    (IsDdl /\ ret.outcome = "return") =>
        IF ret.op = "DropTableSql"
        THEN Count(ret.value, ";") = 0
        ELSE EndsWith(ret.value, ";") /\ Count(ret.value, ";") = 1

\* C7 witness: CreateIndexSql has returned a terminated statement for a
\* unique index.
C7_Witness ==
    /\ ret.op = "CreateIndexSql"
    /\ inp.index.Type = "UniqueType"
    /\ EndsWith(ret.value, ");")

\* C8: DropTableSql(name) is 'DROP TABLE IF EXISTS ' followed by the name
\* quoted as Base.Quote quotes it, with the bound dialect's QuoteStr().
C8_DropQuotesLikeQuote ==
    ret.op = "DropTableSql" =>
        ret.value = "DROP TABLE IF EXISTS " \o Quote(b, inp.tableName)

\* Metadata the claim calls malformed: no columns, or a name in the column
\* sequence or the primary-key list that the lookup does not resolve.
Malformed(table) ==
    \/ Len(table.ColumnsSeq) = 0
    \/ \E i \in 1..Len(table.ColumnsSeq) :
          GetColumn(table, table.ColumnsSeq[i]) = NilPtr
    \/ \E i \in 1..Len(table.PrimaryKeys) :
          GetColumn(table, table.PrimaryKeys[i]) = NilPtr

\* C10: on malformed metadata CreateTableSql fails explicitly; it never
\* returns a statement.
C10_MalformedFailsLoudly ==
    (ret.op = "CreateTableSql" /\ Malformed(inp.table)) =>
        ret.outcome = "panic"

----------------------------------------------------------------------------
(* The registry under concurrent callers.  RegisterDialect and             *)
(* QueryDialect take no lock (dialect.go:192-201): a map access is an      *)
(* interval that starts and ends, and intervals of different callers may   *)
(* overlap.  A write overlapping another access is a data race on a Go     *)
(* map: the runtime may abort the process ("concurrent map writes",        *)
(* "concurrent map read and map write"), the write may be lost, a read may *)
(* return any dialect.                                                     *)

\* Registrations the concurrent callers make at most.
MaxWrites == 2

ConcKeys == {"mysql", "postgres"}

\* Mutant: a lookup that stores into the map (say, caching a miss).
AccessOf_QueryWrites(op) == "write"

\* The kind of map access each function makes: dialects[dbName] = dialect
\* writes, dialects[dbName] reads.
AccessOf(op) == IF op = "RegisterDialect" THEN "write" ELSE "read"

\* The callers whose access in progress conflicts with a new access of
\* kind k by caller p.
Conflicting(p, k) ==
    {q \in Procs \ {p} : acc[q] # "none" /\ (k = "write" \/ acc[q] = "write")}

\* Caller p starts a map access of kind k on behalf of call c.
BeginAccess(p, c, k) ==
    LET cs == Conflicting(p, k) IN
    /\ pc' = [q \in Procs |->
                 IF q = p THEN [c EXCEPT !.overlapped = cs # {}]
                 ELSE IF q \in cs THEN [pc[q] EXCEPT !.overlapped = TRUE]
                 ELSE pc[q]]
    /\ acc' = [acc EXCEPT ![p] = k]
    /\ raced' = (raced \/ cs # {})

InFlightWrites == Cardinality({q \in Procs : pc[q].op = "RegisterDialect"})

Crashed == [q \in Procs |-> [Idle EXCEPT !.at = "crashed"]]

\* RegisterDialect up to the map write: the nil check, then the write
\* starts.
BeginRegisterDialect(p) ==
    /\ pc[p].at = "idle"
    /\ Len(log) + InFlightWrites < MaxWrites
    /\ \E dbName \in ConcKeys, dialect \in DialectIds \cup {Nil} :
         IF RegisterDialect(dialects, dbName, dialect).panic
         THEN /\ ret' = [op |-> "RegisterDialect", outcome |-> "panic",
                         value |-> dialect, dbName |-> dbName,
                         stored |-> Nil, clean |-> TRUE]
              /\ UNCHANGED <<pc, acc, raced>>
         ELSE /\ BeginAccess(p, [at |-> "access", op |-> "RegisterDialect",
                                 dbName |-> dbName, dialect |-> dialect,
                                 overlapped |-> FALSE],
                             AccessOf("RegisterDialect"))
              /\ UNCHANGED ret
    /\ UNCHANGED <<dialects, log, b, inits, inp>>

\* The map write of RegisterDialect completes.  Raced, it may also be lost
\* or abort the process.
EndRegisterDialect(p) ==
    /\ pc[p].at = "access" /\ pc[p].op = "RegisterDialect"
    /\ \E outcome \in IF pc[p].overlapped THEN {"return", "lost", "fatal"}
                      ELSE {"return"} :
         /\ dialects' = IF outcome = "return"
                        THEN RegisterDialect(dialects, pc[p].dbName,
                                             pc[p].dialect).dialects
                        ELSE dialects
         /\ log' = IF outcome = "return"
                   THEN Append(log, [op |-> "RegisterDialect",
                                     dbName |-> pc[p].dbName,
                                     dialect |-> pc[p].dialect])
                   ELSE log
         /\ ret' = [op |-> "RegisterDialect",
                    outcome |-> IF outcome = "fatal" THEN "fatal" ELSE "return",
                    value |-> pc[p].dialect, dbName |-> pc[p].dbName,
                    stored |-> Nil, clean |-> ~raced]
         /\ pc' = IF outcome = "fatal" THEN Crashed
                  ELSE [pc EXCEPT ![p] = Idle]
         /\ acc' = IF outcome = "fatal" THEN [q \in Procs |-> "none"]
                   ELSE [acc EXCEPT ![p] = "none"]
    /\ UNCHANGED <<raced, b, inits, inp>>

\* QueryDialect starts its map read.
BeginQueryDialect(p) ==
    /\ pc[p].at = "idle"
    /\ \E dbName \in ConcKeys :
         BeginAccess(p, [at |-> "access", op |-> "QueryDialect",
                         dbName |-> dbName, dialect |-> Nil,
                         overlapped |-> FALSE],
                     AccessOf("QueryDialect"))
    /\ UNCHANGED <<dialects, log, ret, b, inits, inp>>

\* QueryDialect returns.  Raced, it may return any dialect or abort the
\* process.
EndQueryDialect(p) ==
    /\ pc[p].at = "access" /\ pc[p].op = "QueryDialect"
    /\ \E outcome \in IF pc[p].overlapped THEN {"return", "fatal"}
                      ELSE {"return"},
          value \in IF pc[p].overlapped THEN DialectIds \cup {Nil}
                    ELSE {QueryDialect(dialects, pc[p].dbName)} :
         /\ ret' = [op |-> "QueryDialect", outcome |-> outcome,
                    value |-> IF outcome = "fatal" THEN Nil ELSE value,
                    dbName |-> pc[p].dbName,
                    stored |-> LastRegistered(log, pc[p].dbName),
                    clean |-> ~raced]
         /\ pc' = IF outcome = "fatal" THEN Crashed
                  ELSE [pc EXCEPT ![p] = Idle]
         /\ acc' = IF outcome = "fatal" THEN [q \in Procs |-> "none"]
                   ELSE [acc EXCEPT ![p] = "none"]
    /\ UNCHANGED <<dialects, log, raced, b, inits, inp>>

InitConc ==
    /\ dialects = EmptyRegistry
    /\ log = <<>>
    /\ ret = [op |-> "none", outcome |-> "none", value |-> Nil,
              dbName |-> Nil, stored |-> Nil, clean |-> TRUE]
    /\ b = ZeroBase
    /\ inits = NoInits
    /\ inp = NoCall
    /\ pc = [q \in Procs |-> Idle]
    /\ acc = [q \in Procs |-> "none"]
    /\ raced = FALSE

NextConc ==
    \E p \in Procs :
        \/ BeginRegisterDialect(p)
        \/ EndRegisterDialect(p)
        \/ BeginQueryDialect(p)
        \/ EndQueryDialect(p)

SpecConc == InitConc /\ [][NextConc]_vars

\* A map write is in progress together with another access.
WriteOverlap ==
    \E p \in Procs, q \in Procs :
        p # q /\ acc[p] = "write" /\ acc[q] # "none"

\* C9 as stated: accesses to the registry map are serialized; no state has
\* a write overlapping another read or write, and every lookup observes
\* the registry wholly before or after each registration.
C9_Serialized ==
    /\ ~WriteOverlap
    /\ (ret.op = "QueryDialect" =>
           (ret.outcome = "return" /\ ret.value = ret.stored))

\* C9 as amended: the registry does not serialize its callers.  What holds
\* is that only RegisterDialect writes the map, so every overlap with a
\* write involves a RegisterDialect in progress and concurrent lookups
\* alone never race; and as long as no write has overlapped another access
\* (ret.clean), a lookup returns the latest completed registration for its
\* key.
C9_OnlyRegistrationRaces ==
    /\ \A p \in Procs : acc[p] = "write" => pc[p].op = "RegisterDialect"
    /\ (\A p \in Procs : pc[p].op # "RegisterDialect") => ~WriteOverlap
    /\ (ret.op = "QueryDialect" /\ ret.clean) =>
           (ret.outcome = "return" /\ ret.value = ret.stored)

\* C9 witness: two lookups overlap while the registry holds a dialect, and
\* no race has happened.
C9_Witness ==
    /\ \A p \in Procs : acc[p] = "read"
    /\ ~raced
    /\ DOMAIN dialects # {}
    /\ ret.op = "QueryDialect" /\ ret.clean /\ ret.value # Nil

=============================================================================
